---------------------------- MODULE Spec2Model ----------------------------
(***************************************************************************)
(* Model of the WebSocket frame receiver src/src/reciever.py: the          *)
(* per-connection handler (dimension stability tracking, command parsing,  *)
(* transform pipeline) and the shared virtual camera it writes to.         *)
(***************************************************************************)
EXTENDS Integers, Sequences, FiniteSets, TLC

(***************************************************************************)
(* Program constants.                                                      *)
(***************************************************************************)
FIXED_CAMERA_WIDTH == 1920

FIXED_CAMERA_HEIGHT == 1080

REQUIRED_STABLE_FRAMES == 3

(***************************************************************************)
(* Bounds of the model.                                                    *)
(***************************************************************************)
\* messages one client sends on its connection (specification Spec)
MaxMsgs == 3

\* messages in flight on one connection, sent and not yet read by the handler
MaxQueue == 2

\* frames one client sends in the tracker specification SpecTracker
MaxFrames == 7

\* full turns added to and taken from a rotation
MaxTurns == 2

Conns == {"c1", "c2"}

None == "None"

(***************************************************************************)
(* Python values, as far as the handler stores and tests them.  A value is *)
(* a record: t its Python type, n its number (bool: 0/1, float: the        *)
(* integer part; floats of the model have a non-zero fraction), s its      *)
(* text as a sequence of characters.                                       *)
(***************************************************************************)
PyBool(b) == [t |-> "bool", n |-> IF b THEN 1 ELSE 0, s |-> <<>>]

PyInt(i) == [t |-> "int", n |-> i, s |-> <<>>]

PyFloat(i) == [t |-> "float", n |-> i, s |-> <<>>]

PyStr(chars) == [t |-> "str", n |-> 0, s |-> chars]

PyNone == [t |-> "NoneType", n |-> 0, s |-> <<>>]

\* a key the JSON object does not hold
Absent == [t |-> "absent", n |-> 0, s |-> <<>>]

\* Python truth value of v, as `if flip_h:' tests it
Truthy(v) ==
    CASE v.t = "bool"  -> v.n = 1
      [] v.t = "int"   -> v.n # 0
      [] v.t = "float" -> TRUE
      [] v.t = "str"   -> v.s # <<>>
      [] OTHER         -> FALSE

Digits == <<"0", "1", "2", "3", "4", "5", "6", "7", "8", "9">>

IsDigit(ch) == \E i \in 1..10 : Digits[i] = ch

DigitVal(ch) == (CHOOSE i \in 1..10 : Digits[i] = ch) - 1

RECURSIVE DigitsValue(_)
DigitsValue(chars) ==
    IF chars = <<>> THEN 0
    ELSE 10 * DigitsValue(SubSeq(chars, 1, Len(chars) - 1))
         + DigitVal(chars[Len(chars)])

RECURSIVE Strip(_)
\* str.strip(): leading and trailing blanks removed
Strip(chars) ==
    IF chars = <<>> THEN chars
    ELSE IF Head(chars) = " " THEN Strip(Tail(chars))
    ELSE IF chars[Len(chars)] = " " THEN Strip(SubSeq(chars, 1, Len(chars) - 1))
    ELSE chars

\* an int(str) that takes no sign
IntOfStrUnsigned(chars) ==
    LET digits == Strip(chars) IN
    IF digits # <<>> /\ \A i \in 1..Len(digits) : IsDigit(digits[i])
    THEN [ok |-> TRUE, n |-> DigitsValue(digits)]
    ELSE [ok |-> FALSE, n |-> 0]

\* int(str): [ok, n]; blanks stripped, an optional sign, then digits only
IntOfStr(chars) ==
    LET body == Strip(chars)
        signed == body # <<>> /\ Head(body) \in {"-", "+"}
        digits == IF signed THEN Tail(body) ELSE body
    IN  IF digits # <<>> /\ \A i \in 1..Len(digits) : IsDigit(digits[i])
        THEN [ok |-> TRUE,
              n |-> IF signed /\ Head(body) = "-"
                    THEN 0 - DigitsValue(digits) ELSE DigitsValue(digits)]
        ELSE [ok |-> FALSE, n |-> 0]

\* int(v) of a Python value: [ok, n]; ok = FALSE is TypeError / ValueError
IntOf(v) ==
    CASE v.t \in {"int", "bool", "float"} -> [ok |-> TRUE, n |-> v.n]
      [] v.t = "str" -> IntOfStr(v.s)
      [] OTHER -> [ok |-> FALSE, n |-> 0]

LowerChar(ch) ==
    CASE ch = "T" -> "t" [] ch = "R" -> "r" [] ch = "U" -> "u" [] ch = "E" -> "e"
      [] ch = "F" -> "f" [] ch = "A" -> "a" [] ch = "L" -> "l" [] ch = "S" -> "s"
      [] ch = "H" -> "h" [] ch = "V" -> "v" [] OTHER -> ch

UpperChar(ch) ==
    CASE ch = "t" -> "T" [] ch = "r" -> "R" [] ch = "u" -> "U" [] ch = "e" -> "E"
      [] ch = "f" -> "F" [] ch = "a" -> "A" [] ch = "l" -> "L" [] ch = "s" -> "S"
      [] ch = "h" -> "H" [] ch = "v" -> "V" [] OTHER -> ch

\* str.lower()
Lower(chars) == [i \in 1..Len(chars) |-> LowerChar(chars[i])]

\* str.upper()
Upper(chars) == [i \in 1..Len(chars) |-> UpperChar(chars[i])]

(***************************************************************************)
(* Images.  A PIL image is its size, whether its pixel data can be loaded  *)
(* (Image.open only reads the header: a payload cut after the header opens *)
(* with a size and fails at the first operation that loads the pixels),    *)
(* and the operations applied to the picture so far.                       *)
(***************************************************************************)
Operation(name, arg) == [op |-> name, arg |-> arg]

Raise == [ok |-> FALSE, img |-> [size |-> <<0, 0>>, intact |-> FALSE, ops |-> <<>>]]

Return(img) == [ok |-> TRUE, img |-> img]

\* a rotation that keeps the box
KeepBox(size) == size

Swap(size) == <<size[2], size[1]>>

\* Image.rotate(angle, expand): PIL reduces the angle mod 360, copies for 0,
\* transposes for 180 and (with expand) for 90 / 270, and otherwise rotates
\* inside the unchanged box (expand = FALSE)
Rotate(img, angle, expand) ==
    LET a == angle % 360 IN
    IF ~img.intact THEN Raise
    ELSE CASE a = 0 -> Return(img)
           [] a = 180 ->
                Return([img EXCEPT !.ops = Append(@, Operation("ROTATE_180", <<>>))])
           [] a \in {90, 270} /\ (expand \/ img.size[1] = img.size[2]) ->
                Return([img EXCEPT !.size = Swap(@),
                    !.ops = Append(@, Operation(IF a = 90 THEN "ROTATE_90"
                                                ELSE "ROTATE_270", <<>>))])
           [] a \notin {0, 180} /\ ~expand
              /\ ~(a \in {90, 270} /\ img.size[1] = img.size[2]) ->
                Return([img EXCEPT !.ops = Append(@, Operation("rotate", <<a>>))])

\* Image.transpose(FLIP_LEFT_RIGHT / FLIP_TOP_BOTTOM)
Transpose(img, method) ==
    IF ~img.intact THEN Raise
    ELSE Return([img EXCEPT !.ops = Append(@, Operation(method, <<>>))])

\* a letterbox that rounds the paste offsets up
LetterboxGeometryRoundingUp(size, target_width, target_height) ==
    LET img_width == size[1]
        img_height == size[2]
        wider == img_width * target_height > target_width * img_height
        new_width == IF wider THEN target_width
                     ELSE (target_height * img_width) \div img_height
        new_height == IF wider THEN (target_width * img_height) \div img_width
                      ELSE target_height
    IN  [new_width |-> new_width, new_height |-> new_height,
         x_offset |-> (target_width - new_width + 1) \div 2,
         y_offset |-> (target_height - new_height + 1) \div 2]

\* the resized size and paste offsets resize_with_letterbox computes (lines
\* 62-83).  The code divides in floating point and truncates; for the frame
\* sizes of this model that is the integer quotient taken here.
LetterboxGeometry(size, target_width, target_height) ==
    LET img_width == size[1]
        img_height == size[2]
        wider == img_width * target_height > target_width * img_height
        new_width == IF wider THEN target_width
                     ELSE (target_height * img_width) \div img_height
        new_height == IF wider THEN (target_width * img_height) \div img_width
                      ELSE target_height
    IN  [new_width |-> new_width, new_height |-> new_height,
         x_offset |-> (target_width - new_width) \div 2,
         y_offset |-> (target_height - new_height) \div 2]

\* a letterbox whose result has the resized size, not the canvas size
LetterboxWithoutCanvas(img, target_width, target_height) ==
    LET g == LetterboxGeometry(img.size, target_width, target_height) IN
    IF ~img.intact \/ g.new_width < 1 \/ g.new_height < 1 THEN Raise
    ELSE Return([img EXCEPT !.size = <<g.new_width, g.new_height>>,
                            !.ops = Append(@, Operation("letterbox", <<>>))])

\* resize_with_letterbox: Image.resize raises for a size below 1 (and for
\* pixel data that cannot be loaded); the result is a new canvas-sized image
resize_with_letterbox(img, target_width, target_height) ==
    LET g == LetterboxGeometry(img.size, target_width, target_height) IN
    IF ~img.intact \/ g.new_width < 1 \/ g.new_height < 1 THEN Raise
    ELSE Return([img EXCEPT !.size = <<target_width, target_height>>,
                            !.ops = Append(@, Operation("letterbox",
                                <<g.new_width, g.new_height,
                                  g.x_offset, g.y_offset>>))])

\* a rotation step that branches on the rotation as given, not mod 360
RotateStepOnRawAngle(img, rotation) ==
    IF rotation # 0
    THEN IF rotation = 90 \/ rotation = 270
         THEN Rotate(img, 0 - rotation, TRUE)
         ELSE Rotate(img, 0 - rotation, FALSE)
    ELSE Return(img)

\* the steps of apply_transformations, each on the result of the one before
RotateStep(img, rotation) ==
    IF rotation # 0
    THEN LET effective_rotation == rotation % 360 IN
         IF effective_rotation = 90 \/ effective_rotation = 270
         THEN Rotate(img, 0 - rotation, TRUE)
         ELSE Rotate(img, 0 - rotation, FALSE)
    ELSE Return(img)

FlipStep(r, flip, method) ==
    IF ~r.ok THEN r
    ELSE IF Truthy(flip) THEN Transpose(r.img, method) ELSE r

\* a resize step that letterboxes an image that has the target size too
ResizeAlways(r, target_width, target_height) ==
    IF ~r.ok THEN r
    ELSE IF target_width # 0 /\ target_height # 0
         THEN resize_with_letterbox(r.img, target_width, target_height)
         ELSE r

ResizeStep(r, target_width, target_height) ==
    IF ~r.ok THEN r
    ELSE IF target_width # 0 /\ target_height # 0
            /\ r.img.size # <<target_width, target_height>>
         THEN resize_with_letterbox(r.img, target_width, target_height)
         ELSE r

apply_transformations(img, rotation, flip_h, flip_v, target_width, target_height) ==
    ResizeStep(FlipStep(FlipStep(RotateStep(img, rotation),
                                 flip_h, "FLIP_LEFT_RIGHT"),
                        flip_v, "FLIP_TOP_BOTTOM"),
               target_width, target_height)

\* pyfakewebcam.FakeWebcam(VIRTUAL_CAMERA_DEVICE, width, height): the handle
FakeWebcam(width, height) == [device |-> "/dev/video2", width |-> width,
                              height |-> height]

\* camera = None: no handle
NoCamera == [device |-> None, width |-> 0, height |-> 0]

\* write_frame_to_camera: handed = camera.schedule_frame was called, shape =
\* the (height, width) of the array handed to it, delivered = it returned
\* (the function returns True), resized = line 124 or 133 replaced the image.
\* device_ok: whether the device takes the write.
write_frame_to_camera(cam, img, device_ok) ==
    LET NoWrite == [handed |-> FALSE, shape |-> <<0, 0>>, delivered |-> FALSE,
                    resized |-> FALSE]
        fitted == IF img.size # <<FIXED_CAMERA_WIDTH, FIXED_CAMERA_HEIGHT>>
                  THEN resize_with_letterbox(img, FIXED_CAMERA_WIDTH,
                                             FIXED_CAMERA_HEIGHT)
                  ELSE Return(img)
        shape == Swap(fitted.img.size)
        refit == IF shape # <<FIXED_CAMERA_HEIGHT, FIXED_CAMERA_WIDTH>>
                 THEN resize_with_letterbox(fitted.img, FIXED_CAMERA_WIDTH,
                                            FIXED_CAMERA_HEIGHT)
                 ELSE fitted
    IN  IF cam = NoCamera THEN NoWrite
        ELSE IF ~fitted.ok \/ ~fitted.img.intact \/ ~refit.ok THEN NoWrite
        ELSE [handed |-> TRUE, shape |-> Swap(refit.img.size),
              delivered |-> device_ok, resized |-> refit.img # img]

(***************************************************************************)
(* Messages of a connection's stream.  A binary message is an image        *)
(* payload: garbage (Image.open raises), or a header giving a size with    *)
(* pixel data that is intact or truncated.  A text message is given by     *)
(* what json.loads makes of it (json.loads = FALSE: JSONDecodeError) and   *)
(* by its pieces message.split(":"), each a sequence of characters.  tag   *)
(* is history: the transform state the commands sent before it amount to.  *)
(***************************************************************************)
NoJson == [loads |-> FALSE, object |-> FALSE,
           action |-> Absent, type |-> Absent, value |-> Absent]

NoTag == [rotation |-> 0, flip_h |-> PyBool(FALSE), flip_v |-> PyBool(FALSE)]

Bytes(size, data) ==
    [type |-> "bytes", size |-> size, data |-> data,
     json |-> NoJson, parts |-> <<>>, tag |-> NoTag]

\* a text that json.loads decodes to an object with these keys
JsonObject(action, type, value) ==
    [type |-> "str", size |-> <<0, 0>>, data |-> "",
     json |-> [loads |-> TRUE, object |-> TRUE,
               action |-> action, type |-> type, value |-> value],
     parts |-> <<>>, tag |-> NoTag]

\* a text that json.loads decodes to something that is not an object
JsonScalar ==
    [type |-> "str", size |-> <<0, 0>>, data |-> "",
     json |-> [loads |-> TRUE, object |-> FALSE,
               action |-> Absent, type |-> Absent, value |-> Absent],
     parts |-> <<>>, tag |-> NoTag]

\* a text that json.loads rejects, given by its pieces split at ":"
Plain(parts) ==
    [type |-> "str", size |-> <<0, 0>>, data |-> "",
     json |-> NoJson, parts |-> parts, tag |-> NoTag]

S_rotate == <<"r", "o", "t", "a", "t", "e">>

S_flip == <<"f", "l", "i", "p">>

S_ROTATE == <<"R", "O", "T", "A", "T", "E">>

S_FLIP == <<"F", "L", "I", "P">>

S_true == <<"t", "r", "u", "e">>

(***************************************************************************)
(* The handler's per-connection state (lines 148-162).  NoDims is None.    *)
(***************************************************************************)
NoDims == <<>>

NewSession ==
    [frame_count |-> 0,
     rotation |-> 0,
     flip_h |-> PyBool(FALSE),
     flip_v |-> PyBool(FALSE),
     last_incoming_dimensions |-> NoDims,
     dimension_change_frame_count |-> 0,
     stable_dimension_frame_count |-> 0]

\* Image.open(io.BytesIO(message))
ImageOpen(message) ==
    IF message.data = "garbage" THEN Raise
    ELSE Return([size |-> message.size, intact |-> message.data = "intact",
                 ops |-> <<>>])

\* a tracker that does not reset the stable count when the size changes
StabilityCheckKeepingStable(s, dims) ==
    IF s.last_incoming_dimensions # NoDims /\ s.last_incoming_dimensions # dims
    THEN LET changes == s.dimension_change_frame_count + 1 IN
         [s EXCEPT !.dimension_change_frame_count = changes,
                   !.last_incoming_dimensions = dims]
         @@ [skip |-> changes < REQUIRED_STABLE_FRAMES]
    ELSE IF s.dimension_change_frame_count > 0
         THEN LET stable == s.stable_dimension_frame_count + 1 IN
              IF stable < REQUIRED_STABLE_FRAMES
              THEN [s EXCEPT !.stable_dimension_frame_count = stable,
                             !.last_incoming_dimensions = dims]
                   @@ [skip |-> TRUE]
              ELSE [s EXCEPT !.dimension_change_frame_count = 0,
                             !.stable_dimension_frame_count = 0,
                             !.last_incoming_dimensions = dims]
                   @@ [skip |-> FALSE]
         ELSE [s EXCEPT !.last_incoming_dimensions = dims] @@ [skip |-> FALSE]

\* a tracker that does not reset its counters at the threshold
StabilityCheckWithoutReset(s, dims) ==
    IF s.last_incoming_dimensions # NoDims /\ s.last_incoming_dimensions # dims
    THEN LET changes == s.dimension_change_frame_count + 1 IN
         [s EXCEPT !.dimension_change_frame_count = changes,
                   !.stable_dimension_frame_count = 0,
                   !.last_incoming_dimensions = dims]
         @@ [skip |-> changes < REQUIRED_STABLE_FRAMES]
    ELSE IF s.dimension_change_frame_count > 0
         THEN LET stable == s.stable_dimension_frame_count + 1 IN
              [s EXCEPT !.stable_dimension_frame_count = stable,
                        !.last_incoming_dimensions = dims]
              @@ [skip |-> stable < REQUIRED_STABLE_FRAMES]
         ELSE [s EXCEPT !.last_incoming_dimensions = dims] @@ [skip |-> FALSE]

\* lines 176-200: the tracker fields after a frame of size dims, and whether
\* the frame goes on to be processed (skip = the `continue' of 185 / 193)
StabilityCheck(s, dims) ==
    IF s.last_incoming_dimensions # NoDims /\ s.last_incoming_dimensions # dims
    THEN LET changes == s.dimension_change_frame_count + 1 IN
         [s EXCEPT !.dimension_change_frame_count = changes,
                   !.stable_dimension_frame_count = 0,
                   !.last_incoming_dimensions = dims]
         @@ [skip |-> changes < REQUIRED_STABLE_FRAMES]
    ELSE IF s.dimension_change_frame_count > 0
         THEN LET stable == s.stable_dimension_frame_count + 1 IN
              IF stable < REQUIRED_STABLE_FRAMES
              THEN [s EXCEPT !.stable_dimension_frame_count = stable,
                             !.last_incoming_dimensions = dims]
                   @@ [skip |-> TRUE]
              ELSE [s EXCEPT !.dimension_change_frame_count = 0,
                             !.stable_dimension_frame_count = 0,
                             !.last_incoming_dimensions = dims]
                   @@ [skip |-> FALSE]
         ELSE [s EXCEPT !.last_incoming_dimensions = dims] @@ [skip |-> FALSE]

\* the session fields of a record that also holds skip
Fields(t) == [k \in DOMAIN NewSession |-> t[k]]

(***************************************************************************)
(* Text messages, lines 239-266.  The result is the session and whether an *)
(* exception reached the handler of line 265 (error).                      *)
(***************************************************************************)
Parsed(s) == [session |-> s, error |-> FALSE]

ParseError(s) == [session |-> s, error |-> TRUE]

\* lines 242-253: json.loads succeeded and gave cmd
StructuredCommand(s, cmd) ==
    IF ~cmd.object THEN ParseError(s)
    ELSE IF cmd.action = PyStr(S_rotate)
    THEN LET value == IF cmd.value = Absent THEN PyInt(0) ELSE cmd.value
             i == IntOf(value)
         IN  IF i.ok THEN Parsed([s EXCEPT !.rotation = i.n]) ELSE ParseError(s)
    ELSE IF cmd.action = PyStr(S_flip)
    THEN LET type == IF cmd.type = Absent THEN PyStr(<<>>) ELSE cmd.type
             value == IF cmd.value = Absent THEN PyBool(FALSE) ELSE cmd.value
         IN  IF type.t # "str" THEN ParseError(s)
             ELSE LET flip_type == Upper(type.s) IN
                  IF flip_type = <<"H">> THEN Parsed([s EXCEPT !.flip_h = value])
                  ELSE IF flip_type = <<"V">>
                  THEN Parsed([s EXCEPT !.flip_v = value])
                  ELSE Parsed(s)
    ELSE Parsed(s)

\* message.startswith(prefix + ":"), prefix given by its pieces
StartsWith(parts, prefix) ==
    /\ Len(parts) > Len(prefix)
    /\ SubSeq(parts, 1, Len(prefix)) = prefix

\* message.split(":")[2].lower() == "true"
FallbackTrueToken(token) == Lower(token) = S_true

\* lines 256-264: the simple string format
FallbackCommand(s, parts) ==
    IF StartsWith(parts, <<S_ROTATE>>)
    THEN LET i == IntOfStr(parts[2]) IN
         IF i.ok THEN Parsed([s EXCEPT !.rotation = i.n]) ELSE ParseError(s)
    ELSE IF StartsWith(parts, <<S_FLIP, <<"H">>>>)
    THEN Parsed([s EXCEPT !.flip_h = PyBool(FallbackTrueToken(parts[3]))])
    ELSE IF StartsWith(parts, <<S_FLIP, <<"V">>>>)
    THEN Parsed([s EXCEPT !.flip_v = PyBool(FallbackTrueToken(parts[3]))])
    ELSE Parsed(s)

\* the text branch of the loop body
HandleText(s, message) ==
    IF message.json.loads
    THEN StructuredCommand(s, message.json)
    ELSE FallbackCommand(s, message.parts)

(***************************************************************************)
(* Binary messages, lines 167-236.  The result is the session, what became *)
(* of the frame (verdict), the transform values handed to                  *)
(* apply_transformations, and what write_frame_to_camera did.              *)
(*   decode_error     Image.open raised                                    *)
(*   skipped          the stability check skipped the frame                *)
(*   transform_error  apply_transformations raised                         *)
(*   counted          frame_count was incremented                          *)
(* save_ok: whether latest.jpg can be written; device_ok: as above.        *)
(***************************************************************************)
NotWritten == [handed |-> FALSE, shape |-> <<0, 0>>, delivered |-> FALSE,
               resized |-> FALSE]

NotTransformed == [size |-> <<0, 0>>, intact |-> FALSE, ops |-> <<>>]

NoBox == <<0, 0>>

\* box: img.size after the rotation of lines 91-97; image: what
\* apply_transformations returned
Outcome(s, verdict, saved, written, image, box) ==
    [session |-> s, verdict |-> verdict, saved |-> saved, written |-> written,
     image |-> image, box |-> box]

\* a dropped frame that is counted all the same
DroppedButCounted(s, verdict, box) ==
    Outcome([s EXCEPT !.frame_count = @ + 1], verdict, FALSE, NotWritten,
            NotTransformed, box)

\* a frame that did not get as far as the camera
Dropped(s, verdict, box) ==
    Outcome(s, verdict, FALSE, NotWritten, NotTransformed, box)

HandleBytes(s, message, cam, save_ok, device_ok) ==
    LET opened == ImageOpen(message) IN
    IF ~opened.ok THEN Dropped(s, "decode_error", NoBox)
    ELSE
    LET img == opened.img
        checked == StabilityCheck(s, img.size)
        tracked == Fields(checked)
    IN  IF checked.skip THEN Dropped(tracked, "skipped", NoBox)
        ELSE
        LET transformed == apply_transformations(img, s.rotation, s.flip_h,
                               s.flip_v, FIXED_CAMERA_WIDTH, FIXED_CAMERA_HEIGHT)
            rotated == RotateStep(img, s.rotation)
            box == IF rotated.ok THEN rotated.img.size ELSE NoBox
        IN  IF ~transformed.ok
            THEN Dropped(tracked, "transform_error", box)
            ELSE Outcome([tracked EXCEPT !.frame_count = @ + 1], "counted",
                         transformed.img.intact /\ save_ok,
                         write_frame_to_camera(cam, transformed.img, device_ok),
                         transformed.img, box)

(***************************************************************************)
(* The state.                                                              *)
(***************************************************************************)
VARIABLES
    camera,      \* the global camera: NoCamera or the FakeWebcam handle
    serving,     \* main() has initialized the camera and serves connections
    status,      \* per connection: IDLE, CONNECTED (handler in its loop), CLOSED
    session,     \* per connection: the handler's local variables
    stream,      \* per connection: messages sent and not yet read
    reported,    \* per connection: the frame count printed at the end, or NotReported
    sent,        \* history: number of messages the client has sent
    clientView,  \* history: the transform state the commands sent so far amount to
    last,        \* history: what became of the message processed last
    log,         \* history: every binary message processed and what became of it
    sink,        \* history: the calls of camera.schedule_frame and the last one
    task         \* the event loop: the handler it runs, and where each handler is

vars == <<camera, serving, status, session, stream, reported,
          sent, clientView, last, log, sink, task>>

NotReported == 0 - 1

NoMessage ==
    [type |-> "none", verdict |-> "none", size |-> <<0, 0>>, data |-> "",
     rotation |-> 0, flip_h |-> PyBool(FALSE), flip_v |-> PyBool(FALSE),
     tag |-> NoTag, saved |-> FALSE, written |-> NotWritten, ending |-> "none",
     image |-> NotTransformed, box |-> NoBox]

\* no handler runs: each is suspended in `async for message in websocket'
Idle == [running |-> None,
         at |-> [c \in Conns |-> "await"],
         img |-> [c \in Conns |-> NotTransformed]]

Init ==
    /\ camera = NoCamera
    /\ serving = FALSE
    /\ status = [c \in Conns |-> "IDLE"]
    /\ session = [c \in Conns |-> NewSession]
    /\ stream = [c \in Conns |-> <<>>]
    /\ reported = [c \in Conns |-> NotReported]
    /\ sent = [c \in Conns |-> 0]
    /\ clientView = [c \in Conns |-> NoTag]
    /\ last = [c \in Conns |-> NoMessage]
    /\ log = [c \in Conns |-> <<>>]
    /\ sink = [handed |-> 0, shape |-> <<0, 0>>, from |-> None]
    /\ task = Idle

\* an initialization that opens the device with the dimensions exchanged
InitExchanged(cam, available) ==
    IF ~available THEN cam
    ELSE FakeWebcam(FIXED_CAMERA_HEIGHT, FIXED_CAMERA_WIDTH)

\* init_virtual_camera: the handle, or None when pyfakewebcam or the device
\* is missing or FakeWebcam() raises (available = FALSE)
init_virtual_camera(cam, available) ==
    IF ~available THEN cam
    ELSE IF cam = NoCamera
         THEN FakeWebcam(FIXED_CAMERA_WIDTH, FIXED_CAMERA_HEIGHT)
         ELSE cam

\* main(), lines 273-290: initialize the camera once, then serve
Main ==
    /\ ~serving
    /\ \E available \in BOOLEAN : camera' = init_virtual_camera(camera, available)
    /\ serving' = TRUE
    /\ UNCHANGED <<status, session, stream, reported, sent, clientView, last,
                   log, sink, task>>

\* handler(), lines 143-164: a connection is accepted
Connect(c) ==
    /\ serving
    /\ status[c] = "IDLE"
    /\ status' = [status EXCEPT ![c] = "CONNECTED"]
    /\ session' = [session EXCEPT ![c] = NewSession]
    /\ UNCHANGED <<camera, serving, stream, reported, sent, clientView, last,
                   log, sink, task>>

\* handlers that keep their state in variables shared by all connections
StoreShared(sessions, c, s) == [o \in Conns |-> s]

\* the local variables of the handler of c become s: each call of handler
\* has its own
Store(sessions, c, s) == [sessions EXCEPT ![c] = s]

Transform(s) == [rotation |-> s.rotation, flip_h |-> s.flip_h, flip_v |-> s.flip_v]

\* the client sends message m: it is in flight until the handler reads it
Send(c, m, max_sent, max_queue) ==
    /\ status[c] = "CONNECTED"
    /\ sent[c] < max_sent
    /\ Len(stream[c]) < max_queue
    /\ sent' = [sent EXCEPT ![c] = @ + 1]
    /\ stream' = [stream EXCEPT ![c] = Append(@, [m EXCEPT !.tag = clientView[c]])]
    /\ clientView' = [clientView EXCEPT ![c] =
           IF m.type = "str" THEN Transform(HandleText(@, m).session) ELSE @]
    /\ UNCHANGED <<camera, serving, status, session, reported, last, log, sink,
                   task>>

\* a stream that hands over the newest message first
NewestMessage(queue) == queue[Len(queue)]

\* `async for message in websocket': the message the loop body gets next
NextMessage(queue) == Head(queue)

\* an except clause that leaves the loop
LeaveLoop(state) == "CLOSED"

\* lines 231-236: the except clause of the binary branch ends with `continue'
AfterImageError(state) == state

\* lines 139-141 and 218-223: a failed camera write returns False, or is
\* caught, and the iteration goes on to line 225
AfterWriteError(state) == state

\* lines 265-266: the except clause of the text branch only prints
AfterParseError(state) == state

\* one iteration of the loop on a binary message
RecvBytes(c) ==
    /\ status[c] = "CONNECTED"
    /\ stream[c] # <<>>
    /\ NextMessage(stream[c]).type = "bytes"
    /\ \E save_ok \in BOOLEAN, device_ok \in BOOLEAN :
         LET message == NextMessage(stream[c])
             s == session[c]
             o == HandleBytes(s, message, camera, save_ok, device_ok)
         IN  /\ session' = Store(session, c, o.session)
             /\ status' = [status EXCEPT ![c] =
                    IF o.verdict \in {"decode_error", "transform_error"}
                    THEN AfterImageError(@)
                    ELSE IF o.verdict = "counted" /\ ~o.written.delivered
                    THEN AfterWriteError(@)
                    ELSE @]
             /\ last' = [last EXCEPT ![c] =
                    [type |-> "bytes", ending |-> "none", verdict |-> o.verdict,
                     size |-> message.size, data |-> message.data,
                     rotation |-> s.rotation, flip_h |-> s.flip_h,
                     flip_v |-> s.flip_v, tag |-> message.tag,
                     saved |-> o.saved, written |-> o.written,
                     image |-> o.image, box |-> o.box]]
             /\ log' = [log EXCEPT ![c] =
                    Append(@, [size |-> message.size, data |-> message.data,
                               verdict |-> o.verdict,
                               delivered |-> o.written.delivered])]
             /\ sink' = IF o.written.handed
                        THEN [handed |-> sink.handed + 1,
                              shape |-> o.written.shape, from |-> c]
                        ELSE sink
    /\ stream' = [stream EXCEPT ![c] = Tail(@)]
    /\ UNCHANGED <<camera, serving, reported, sent, clientView, task>>

\* one iteration of the loop on a text message
RecvText(c) ==
    /\ status[c] = "CONNECTED"
    /\ stream[c] # <<>>
    /\ NextMessage(stream[c]).type = "str"
    /\ LET message == NextMessage(stream[c])
           r == HandleText(session[c], message)
       IN  /\ session' = Store(session, c, r.session)
           /\ status' = [status EXCEPT ![c] =
                  IF r.error THEN AfterParseError(@) ELSE @]
           /\ last' = [last EXCEPT ![c] =
                  [NoMessage EXCEPT !.type = "str",
                      !.data = IF message.json.loads THEN "json" ELSE "plain",
                      !.verdict = IF r.error THEN "parse_error" ELSE "parsed"]]
    /\ stream' = [stream EXCEPT ![c] = Tail(@)]
    /\ UNCHANGED <<camera, serving, reported, sent, clientView, log, sink, task>>

\* the ways the loop of line 165 ends: the iteration ends (the connection
\* was closed normally), ConnectionClosed is raised (line 268), or another
\* exception is (line 270)
Endings == {"end", "ConnectionClosed", "Exception"}

\* lines 268-271: what the handler prints of frame_count when the loop ends
Report(ending, frame_count) ==
    IF ending = "ConnectionClosed" THEN frame_count ELSE NotReported

\* the loop ends and the handler returns
Close(c, ending) ==
    /\ status[c] = "CONNECTED"
    /\ status' = [status EXCEPT ![c] = "CLOSED"]
    /\ reported' = [reported EXCEPT ![c] = Report(ending, session[c].frame_count)]
    /\ last' = [last EXCEPT ![c].ending = ending]
    /\ UNCHANGED <<camera, serving, session, stream, sent, clientView, log, sink,
                   task>>

(***************************************************************************)
(* The same loop at the grain of the event loop.  The handlers are         *)
(* coroutines of one asyncio loop: a handler that was resumed runs until   *)
(* its next await, and the only await of handler() is the read of line 165.*)
(* An iteration that calls write_frame_to_camera is taken apart into the   *)
(* steps of that call; task.at[c] is where handler c is:                   *)
(*   await     suspended at line 165                                       *)
(*   resize    at lines 123-124, the size check                            *)
(*   convert   at lines 127-134, the array conversion                      *)
(*   schedule  at line 137, camera.schedule_frame                          *)
(*   return    at line 138 / 141, about to count the frame (line 225)      *)
(***************************************************************************)
\* a scheduler that resumes a handler while another one runs
Preemptive(running) == TRUE

\* the event loop resumes a handler only when no handler runs
LoopFree(running) == running = None

\* the message handler c would read takes it into write_frame_to_camera
\* with a camera: it is decoded, passes the stability check and is transformed
EntersWrite(c) ==
    /\ status[c] = "CONNECTED"
    /\ stream[c] # <<>>
    /\ NextMessage(stream[c]).type = "bytes"
    /\ camera # NoCamera
    /\ HandleBytes(session[c], NextMessage(stream[c]), camera, TRUE, TRUE).verdict
           = "counted"

\* an iteration that does not reach line 123: it runs from the read to the
\* next read without a step of another handler in between
Iterate(c) ==
    /\ LoopFree(task.running)
    /\ ~EntersWrite(c)
    /\ RecvBytes(c)

\* lines 166-219 and 118: the handler is resumed with a frame, checks and
\* transforms it and calls write_frame_to_camera
BeginWrite(c) ==
    /\ LoopFree(task.running)
    /\ EntersWrite(c)
    /\ \E save_ok \in BOOLEAN :
         LET message == NextMessage(stream[c])
             s == session[c]
             o == HandleBytes(s, message, camera, save_ok, TRUE)
         IN  /\ session' = Store(session, c,
                                 [o.session EXCEPT !.frame_count = s.frame_count])
             /\ last' = [last EXCEPT ![c] =
                    [type |-> "bytes", ending |-> "none", verdict |-> "writing",
                     size |-> message.size, data |-> message.data,
                     rotation |-> s.rotation, flip_h |-> s.flip_h,
                     flip_v |-> s.flip_v, tag |-> message.tag,
                     saved |-> o.saved, written |-> NotWritten,
                     image |-> o.image, box |-> o.box]]
             /\ task' = [task EXCEPT !.running = c, !.at[c] = "resize",
                                     !.img[c] = o.image]
    /\ stream' = [stream EXCEPT ![c] = Tail(@)]
    /\ UNCHANGED <<camera, serving, status, reported, sent, clientView, log, sink>>

\* lines 123-124
WriteResize(c) ==
    /\ task.at[c] = "resize"
    /\ LET img == task.img[c]
           fitted == IF img.size # <<FIXED_CAMERA_WIDTH, FIXED_CAMERA_HEIGHT>>
                     THEN resize_with_letterbox(img, FIXED_CAMERA_WIDTH,
                                                FIXED_CAMERA_HEIGHT)
                     ELSE Return(img)
       IN  task' = IF fitted.ok
                   THEN [task EXCEPT !.at[c] = "convert", !.img[c] = fitted.img]
                   ELSE [task EXCEPT !.at[c] = "return"]
    /\ UNCHANGED <<camera, serving, status, session, stream, reported, sent,
                   clientView, last, log, sink>>

\* lines 127-134: np.array(img) loads the pixels
WriteConvert(c) ==
    /\ task.at[c] = "convert"
    /\ LET img == task.img[c]
           refit == IF Swap(img.size) # <<FIXED_CAMERA_HEIGHT, FIXED_CAMERA_WIDTH>>
                    THEN resize_with_letterbox(img, FIXED_CAMERA_WIDTH,
                                               FIXED_CAMERA_HEIGHT)
                    ELSE Return(img)
       IN  task' = IF img.intact /\ refit.ok
                   THEN [task EXCEPT !.at[c] = "schedule", !.img[c] = refit.img]
                   ELSE [task EXCEPT !.at[c] = "return"]
    /\ UNCHANGED <<camera, serving, status, session, stream, reported, sent,
                   clientView, last, log, sink>>

\* line 137
WriteSchedule(c) ==
    /\ task.at[c] = "schedule"
    /\ \E device_ok \in BOOLEAN :
         LET shape == Swap(task.img[c].size) IN
         /\ last' = [last EXCEPT ![c].written =
                [handed |-> TRUE, shape |-> shape, delivered |-> device_ok,
                 resized |-> task.img[c] # last[c].image]]
         /\ sink' = [handed |-> sink.handed + 1, shape |-> shape, from |-> c]
    /\ task' = [task EXCEPT !.at[c] = "return"]
    /\ UNCHANGED <<camera, serving, status, session, stream, reported, sent,
                   clientView, log>>

\* lines 138 / 141 and 225-229: the call returns, the frame is counted and
\* the handler goes back to the read of line 165
EndWrite(c) ==
    /\ task.at[c] = "return"
    /\ session' = Store(session, c,
                        [session[c] EXCEPT !.frame_count = @ + 1])
    /\ last' = [last EXCEPT ![c].verdict = "counted"]
    /\ log' = [log EXCEPT ![c] =
           Append(@, [size |-> last[c].size, data |-> last[c].data,
                      verdict |-> "counted",
                      delivered |-> last[c].written.delivered])]
    /\ task' = [task EXCEPT !.running = None, !.at[c] = "await",
                            !.img[c] = NotTransformed]
    /\ UNCHANGED <<camera, serving, status, stream, reported, sent, clientView,
                   sink>>

(***************************************************************************)
(* The messages clients send.                                              *)
(***************************************************************************)
SizeA == <<640, 480>>

SizeB == <<480, 640>>

SizeC == <<1280, 720>>

Canvas == <<FIXED_CAMERA_WIDTH, FIXED_CAMERA_HEIGHT>>

\* wider than the canvas is: the letterbox computes a height of 0
Wide == <<1921, 1>>

\* letterboxed with an odd difference to the canvas width ...
Narrow == <<5, 8>>

\* ... and to the canvas height
Strip128 == <<128, 1>>

Garbage == Bytes(<<0, 0>>, "garbage")

\* {"action":"rotate","value":<v>}
JsonRotate(v) == JsonObject(PyStr(S_rotate), Absent, v)

\* {"action":"flip","type":<t>,"value":<v>}
JsonFlip(t, v) == JsonObject(PyStr(S_flip), t, v)

\* ROTATE:<token>
PlainRotate(token) == Plain(<<S_ROTATE, token>>)

\* FLIP:<axis>:<token>
PlainFlip(axis, token) == Plain(<<S_FLIP, <<axis>>, token>>)

Frames ==
    {Bytes(SizeA, "intact"), Bytes(SizeB, "intact"), Bytes(Wide, "intact"),
     Bytes(SizeB, "truncated"), Bytes(Canvas, "truncated"), Garbage}

Commands ==
    {JsonRotate(PyInt(90)), PlainRotate(<<"-", "9", "0">>),
     JsonFlip(PyStr(<<"H">>), PyBool(TRUE)), PlainFlip("V", S_true),
     PlainRotate(<<"a", "b", "c">>), JsonScalar}

Next ==
    \/ Main
    \/ Connect("c1")
    \/ \E m \in Frames \cup Commands : Send("c1", m, MaxMsgs, MaxQueue)
    \/ RecvBytes("c1")
    \/ RecvText("c1")
    \/ \E ending \in Endings : Close("c1", ending)

Spec == Init /\ [][Next]_vars

(***************************************************************************)
(* SpecTracker: one connection that receives frames only, of three sizes,  *)
(* long enough for the stability tracker to go through its transitions.    *)
(***************************************************************************)
TrackerFrames ==
    {Bytes(SizeA, "intact"), Bytes(SizeB, "intact"), Bytes(SizeC, "intact")}

NextTracker ==
    \/ Main
    \/ Connect("c1")
    \/ \E m \in TrackerFrames : Send("c1", m, MaxFrames, 1)
    \/ RecvBytes("c1")

SpecTracker == Init /\ [][NextTracker]_vars

(***************************************************************************)
(* SpecShared: two connections writing to the one camera.                  *)
(***************************************************************************)
SharedMessages ==
    {Bytes(SizeA, "intact"), Bytes(Wide, "intact"),
     JsonRotate(PyInt(90)), PlainFlip("H", S_true)}

NextShared ==
    \/ Main
    \/ \E c \in Conns : Connect(c)
    \/ \E c \in Conns, m \in SharedMessages : Send(c, m, MaxQueue, 1)
    \/ \E c \in Conns : RecvBytes(c)
    \/ \E c \in Conns : RecvText(c)
    \/ \E c \in Conns : Close(c, "ConnectionClosed")

SpecShared == Init /\ [][NextShared]_vars

(***************************************************************************)
(* SpecCmd: one connection that receives text messages only: commands of   *)
(* both grammars, well-formed and not.                                     *)
(***************************************************************************)
S_abc == <<"a", "b", "c">>

S_false == <<"f", "a", "l", "s", "e">>

StructuredTexts ==
    {JsonRotate(v) : v \in {PyInt(90), PyInt(0 - 90), PyInt(450), PyFloat(45),
                            PyStr(S_abc), PyBool(TRUE), PyNone, Absent}}
    \cup {JsonFlip(PyStr(<<t>>), PyBool(b)) : t \in {"H", "V"}, b \in BOOLEAN}
    \cup {JsonFlip(PyStr(<<"h">>), PyBool(TRUE)),
          JsonFlip(PyStr(<<"H">>), PyStr(<<"n", "o">>)),
          JsonFlip(PyStr(<<"V">>), PyStr(S_false)),
          JsonFlip(PyStr(<<"V">>), PyNone),
          JsonFlip(PyStr(<<"H">>), Absent),
          JsonFlip(PyStr(<<"X">>), PyBool(TRUE)),
          JsonFlip(PyInt(1), PyBool(TRUE)),
          JsonFlip(Absent, PyBool(TRUE)),
          JsonObject(PyStr(<<"z", "o", "o", "m">>), Absent, PyInt(2)),
          JsonObject(Absent, Absent, PyInt(90)),
          JsonScalar}

FallbackTexts ==
    {PlainRotate(token) : token \in {<<"9", "0">>, <<"-", "9", "0">>,
                                     <<"4", "5", "0">>, <<" ", "9", "0">>,
                                     S_abc, <<>>}}
    \cup {PlainFlip(axis, token) : axis \in {"H", "V"},
              token \in {S_true, S_false, <<"T", "R", "U", "E">>, <<"1">>}}
    \cup {Plain(<<S_FLIP, <<"H">>>>),
          Plain(<<S_rotate, <<"9", "0">>>>),
          Plain(<<S_abc>>)}

NextCmd ==
    \/ Main
    \/ Connect("c1")
    \/ \E m \in StructuredTexts \cup FallbackTexts : Send("c1", m, MaxMsgs, 1)
    \/ RecvText("c1")

SpecCmd == Init /\ [][NextCmd]_vars

(***************************************************************************)
(* SpecLoop: two connections whose handlers the event loop interleaves,    *)
(* with the camera write taken apart into its steps.                       *)
(***************************************************************************)
LoopFrames ==
    {Bytes(SizeA, "intact"), Bytes(Canvas, "truncated"), Garbage}

NextLoop ==
    \/ Main
    \/ \E c \in Conns : Connect(c)
    \/ \E c \in Conns, m \in LoopFrames : Send(c, m, MaxQueue, 1)
    \/ \E c \in Conns : Iterate(c)
    \/ \E c \in Conns : BeginWrite(c)
    \/ \E c \in Conns : WriteResize(c)
    \/ \E c \in Conns : WriteConvert(c)
    \/ \E c \in Conns : WriteSchedule(c)
    \/ \E c \in Conns : EndWrite(c)

SpecLoop == Init /\ [][NextLoop]_vars

(***************************************************************************)
(* SpecPipe: one connection that sets rotations and flips and sends intact *)
(* frames: the inputs of the transform pipeline.                           *)
(***************************************************************************)
Rotations == {0, 90, 180, 270, 360, 450, 0 - 90, 0 - 270, 45, 405, 0 - 315}

PipeCommands ==
    {JsonRotate(PyInt(r)) : r \in Rotations}
    \cup {JsonFlip(PyStr(<<t>>), PyBool(TRUE)) : t \in {"H", "V"}}

PipeFrames ==
    {Bytes(SizeA, "intact"), Bytes(Canvas, "intact"), Bytes(Wide, "intact"),
     Bytes(Narrow, "intact"), Bytes(Strip128, "intact")}

NextPipe ==
    \/ Main
    \/ Connect("c1")
    \/ \E m \in PipeCommands \cup PipeFrames : Send("c1", m, MaxMsgs, 1)
    \/ RecvBytes("c1")
    \/ RecvText("c1")

SpecPipe == Init /\ [][NextPipe]_vars

(***************************************************************************)
(* Properties.                                                             *)
(***************************************************************************)
CameraShape == <<FIXED_CAMERA_HEIGHT, FIXED_CAMERA_WIDTH>>

\* C1: every array handed to camera.schedule_frame has the camera's fixed
\* shape (1080 rows of 1920), whatever the frame size, rotation and flips
\* and whichever connection it comes from.
C1_SinkFramesHaveFixedSize ==
    /\ sink.handed > 0 => sink.shape = CameraShape
    /\ \A c \in Conns : last[c].written.handed =>
           last[c].written.shape = CameraShape

\* a frame of another size than the canvas, received while rotation is 90,
\* has been handed to the camera after a frame of the other connection
C1_Witness ==
    \E c \in Conns :
        /\ last[c].written.handed
        /\ last[c].size = SizeA
        /\ last[c].rotation = 90
        /\ sink.from = c
        /\ \E other \in Conns \ {c} : last[other].written.handed

\* the binary messages of connection c that Image.open could open
Decoded(c) == SelectSeq(log[c], LAMBDA e : e.verdict # "decode_error")

Sizes(entries) == [i \in 1..Len(entries) |-> entries[i].size]

Verdicts(entries) == [i \in 1..Len(entries) |-> entries[i].verdict]

\* the sequence [A,A,B,B,A,A,A] of two different frame sizes
IsAABBAAA(sizes) ==
    /\ Len(sizes) = 7
    /\ sizes[1] # sizes[3]
    /\ sizes = <<sizes[1], sizes[1], sizes[3], sizes[3],
                 sizes[1], sizes[1], sizes[1]>>

\* C2 as stated: of the frames [A,A,B,B,A,A,A] only the 7th is forwarded.
C2_OnlySeventhForwarded ==
    \A c \in Conns :
        IsAABBAAA(Sizes(Decoded(c))) =>
            Verdicts(Decoded(c)) = <<"skipped", "skipped", "skipped", "skipped",
                                     "skipped", "skipped", "counted">>

\* C2, amended: of the frames [A,A,B,B,A,A,A] on a fresh tracker the first
\* two are forwarded (the first because no size is known yet, the second
\* because the size is unchanged) and the five that follow are skipped,
\* the 7th included.
C2_FirstTwoForwarded ==
    \A c \in Conns :
        IsAABBAAA(Sizes(Decoded(c))) =>
            Verdicts(Decoded(c)) = <<"counted", "counted", "skipped", "skipped",
                                     "skipped", "skipped", "skipped">>

\* the seven frames have been processed
C2_Witness ==
    \E c \in Conns :
        /\ IsAABBAAA(Sizes(Decoded(c)))
        /\ session[c].frame_count = 2

\* a frame that got past the stability check
Forwarded(e) == e.verdict \in {"counted", "transform_error"}

RECURSIVE RunLength(_, _)
\* the number of consecutive frames of the size of frame i that end with it
RunLength(entries, i) ==
    IF i > 1 /\ entries[i - 1].size = entries[i].size
    THEN 1 + RunLength(entries, i - 1)
    ELSE 1

\* the frames before frame i that were forwarded
ForwardedBefore(entries, i) == {j \in 1..(i - 1) : Forwarded(entries[j])}

\* the size trusted before frame i: that of the last frame forwarded
TrustedBefore(entries, i) ==
    entries[CHOOSE j \in ForwardedBefore(entries, i) :
                \A k \in ForwardedBefore(entries, i) : k <= j].size

\* C3: a frame whose size differs from the size trusted before it is
\* forwarded only as the 3rd or later frame of a run of one size; a frame
\* whose size differs from the frame before it is never forwarded.
C3_ForwardedOnlyAfterStableRun ==
    \A c \in Conns :
        LET d == Decoded(c) IN
        \A i \in 2..Len(d) :
            Forwarded(d[i]) =>
                /\ d[i].size = d[i - 1].size
                /\ (ForwardedBefore(d, i) # {}
                    /\ d[i].size # TrustedBefore(d, i)) => RunLength(d, i) >= 3

\* the frames of c are intact frames of one size
SameIntactFrames(c) ==
    /\ log[c] # <<>>
    /\ \A i \in 1..Len(log[c]) :
           /\ log[c][i].data = "intact"
           /\ log[c][i].size = log[c][1].size

\* C4: when every frame of a connection has the same size, none is skipped:
\* each is transformed and counted, so frame_count is the number of frames,
\* and each is written to the camera (when there is one and it takes the
\* write) at the canvas size.
C4_SameSizeFramesAllCounted ==
    \A c \in Conns :
        SameIntactFrames(c) =>
            /\ \A i \in 1..Len(log[c]) : log[c][i].verdict = "counted"
            /\ session[c].frame_count = Len(log[c])
            /\ (camera # NoCamera /\ last[c].written.handed) =>
                   last[c].written.shape = CameraShape

\* the handler of c reads a message in this step
Reads(c) == Len(stream'[c]) < Len(stream[c])

\* C5: every frame that gets past the stability check is transformed with
\* the rotation and flips that the text commands sent before it, applied in
\* the order sent, amount to (its tag), and with none sent after it.  (The
\* loop body has no await: RecvBytes and RecvText are whole iterations, so
\* no two messages of a connection are processed at once.)
C5_FramesUseCommandsBefore ==
    \A c \in Conns :
        (last[c].type = "bytes" /\ Forwarded(last[c])) =>
            Transform(last[c]) = last[c].tag

\* a frame was transformed with a rotation set before it while a command
\* sent after it, which changes the transform state, was still in flight
C5_Witness ==
    \E c \in Conns :
        /\ last[c].type = "bytes"
        /\ last[c].verdict = "counted"
        /\ last[c].tag.rotation # 0
        /\ stream[c] # <<>>
        /\ clientView[c] # last[c].tag

RECURSIVE DecimalDigits(_)
DecimalDigits(n) ==
    IF n < 10 THEN <<Digits[n + 1]>>
    ELSE Append(DecimalDigits(n \div 10), Digits[(n % 10) + 1])

\* str(n)
Decimal(n) == IF n < 0 THEN <<"-">> \o DecimalDigits(0 - n) ELSE DecimalDigits(n)

IsJsonRotate(m) ==
    /\ m.json.loads /\ m.json.object
    /\ m.json.action = PyStr(S_rotate)
    /\ m.json.value.t = "int"

IsJsonFlip(m) ==
    /\ m.json.loads /\ m.json.object
    /\ m.json.action = PyStr(S_flip)
    /\ m.json.type \in {PyStr(<<"H">>), PyStr(<<"V">>)}
    /\ m.json.value.t = "bool"

IsPlainRotate(m) ==
    /\ ~m.json.loads
    /\ Len(m.parts) = 2 /\ m.parts[1] = S_ROTATE
    /\ IntOfStr(m.parts[2]).ok
    /\ m.parts[2] = Decimal(IntOfStr(m.parts[2]).n)

IsPlainFlip(m) ==
    /\ ~m.json.loads
    /\ Len(m.parts) = 3 /\ m.parts[1] = S_FLIP
    /\ m.parts[2] \in {<<"H">>, <<"V">>}
    /\ m.parts[3] \in {S_true, S_false}

\* the same command in the other grammar
OtherGrammar(m) ==
    CASE IsJsonRotate(m) -> PlainRotate(Decimal(m.json.value.n))
      [] IsJsonFlip(m) ->
           PlainFlip(m.json.type.s[1],
                     IF m.json.value.n = 1 THEN S_true ELSE S_false)
      [] IsPlainRotate(m) -> JsonRotate(PyInt(IntOfStr(m.parts[2]).n))
      [] IsPlainFlip(m) ->
           JsonFlip(PyStr(m.parts[2]), PyBool(m.parts[3] = S_true))

\* C6: when the handler processes {"action":"rotate","value":n}, ROTATE:n,
\* {"action":"flip","type":t,"value":b} or FLIP:t:b, the session it leaves
\* is the one the same command in the other grammar leaves from the same
\* prior session.
C6_GrammarsEquivalent ==
    [][\A c \in Conns :
         LET m == Head(stream[c]) IN
         (Reads(c) /\ m.type = "str"
          /\ (IsJsonRotate(m) \/ IsJsonFlip(m) \/ IsPlainRotate(m) \/ IsPlainFlip(m)))
         => /\ session'[c] = HandleText(session[c], OtherGrammar(m)).session
            /\ ~HandleText(session[c], m).error
            /\ ~HandleText(session[c], OtherGrammar(m)).error]_vars

\* a fallback command was processed and took effect after structured ones
C6_Witness ==
    \E c \in Conns :
        /\ last[c].type = "str" /\ last[c].data = "plain"
        /\ last[c].verdict = "parsed"
        /\ session[c].rotation = 0 - 90
        /\ session[c].flip_h = PyBool(TRUE)

\* the text matches the structured grammar: rotate with an integer value,
\* flip with type H or V (in either case) and a boolean value
MatchesStructured(m) ==
    /\ m.json.loads /\ m.json.object
    /\ \/ m.json.action = PyStr(S_rotate) /\ m.json.value.t = "int"
       \/ /\ m.json.action = PyStr(S_flip)
          /\ m.json.type.t = "str"
          /\ Upper(m.json.type.s) \in {<<"H">>, <<"V">>}
          /\ m.json.value.t = "bool"

\* the text matches the fallback grammar: ROTATE:<int>, FLIP:H:<true|false>,
\* FLIP:V:<true|false>, the boolean token in either case
MatchesFallback(m) ==
    /\ ~m.json.loads
    /\ \/ StartsWith(m.parts, <<S_ROTATE>>) /\ IntOfStr(m.parts[2]).ok
       \/ /\ \/ StartsWith(m.parts, <<S_FLIP, <<"H">>>>)
             \/ StartsWith(m.parts, <<S_FLIP, <<"V">>>>)
          /\ Lower(m.parts[3]) \in {S_true, S_false}

\* C7: a text message that matches neither grammar leaves rotation and both
\* flip flags as they were, and the session connected.
C7_UnmatchedTextChangesNothing ==
    [][\A c \in Conns :
         LET m == Head(stream[c]) IN
         (Reads(c) /\ m.type = "str"
          /\ ~MatchesStructured(m) /\ ~MatchesFallback(m))
         => /\ Transform(session'[c]) = Transform(session[c])
            /\ status'[c] = "CONNECTED"]_vars

\* C8: a binary message whose payload fails to decode changes nothing:
\* frame_count, rotation, flips and the tracker are as before, nothing is
\* handed to the camera, and the session stays connected.
C8_UndecodablePayloadChangesNothing ==
    [][\A c \in Conns :
         LET m == Head(stream[c]) IN
         (Reads(c) /\ m.type = "bytes" /\ m.data # "intact")
         => /\ session'[c] = session[c]
            /\ sink' = sink
            /\ status'[c] = "CONNECTED"]_vars

\* C9: a session leaves CONNECTED only when its loop ends (the stream is
\* closed or the transport fails), never in a step that processes a message,
\* whatever fails in it: after such a step the handler is still in its loop
\* and reads the next message; once CLOSED it processes nothing more.
C9_ClosedOnlyByStreamEnd ==
    [][\A c \in Conns :
         /\ (status[c] = "CONNECTED" /\ status'[c] # "CONNECTED")
            => /\ status'[c] = "CLOSED"
               /\ last'[c].ending \in Endings
               /\ ~Reads(c)
               /\ session'[c] = session[c]
         /\ Reads(c) => status[c] = "CONNECTED" /\ status'[c] = "CONNECTED"
         /\ status[c] = "CLOSED"
            => /\ status'[c] = "CLOSED"
               /\ session'[c] = session[c]
               /\ log'[c] = log[c]]_vars

\* after a per-message failure the session is connected and a later frame
\* has been counted
C9_Witness ==
    \E c \in Conns :
        /\ status[c] = "CONNECTED"
        /\ Len(log[c]) >= 2
        /\ log[c][1].verdict \in {"decode_error", "transform_error"}
        /\ last[c].verdict = "counted"
        /\ ~last[c].written.delivered

\* C10: whenever a session is CLOSED, whatever ended it, the handler has
\* reported the final frame_count of the connection.
C10_FrameCountReportedOnClose ==
    \A c \in Conns :
        status[c] = "CLOSED" => reported[c] = session[c].frame_count

\* handler c is inside write_frame_to_camera
InWrite(c) == task.at[c] \in {"resize", "convert", "schedule", "return"}

\* C11: writes to the camera exclude each other: while the handler of one
\* connection is inside write_frame_to_camera (size check, array conversion,
\* schedule_frame) no other handler is, and it is the handler the event loop
\* runs; a handler is suspended only at the read of its stream.
C11_WritesMutuallyExclusive ==
    /\ \A c \in Conns, o \in Conns : (InWrite(c) /\ InWrite(o)) => c = o
    /\ \A c \in Conns : InWrite(c) <=> task.running = c

\* the handler of one connection is at schedule_frame while the other
\* connection, which has written before, has a frame ready to be read
C11_Witness ==
    \E c \in Conns, o \in Conns :
        /\ c # o
        /\ task.at[c] = "schedule"
        /\ sink.from = o
        /\ EntersWrite(o)

\* C12: the camera is initialized in one step only, the start of main(),
\* before any connection is served; a handle it constructs has the fixed
\* dimensions; once the server serves, no step of any connection (accept,
\* frame, command, close) constructs or replaces the handle or changes its
\* width and height.
C12_CameraInitializedOnce ==
    [][/\ camera' # camera
          => /\ ~serving /\ serving'
             /\ camera = NoCamera
             /\ \A c \in Conns : status[c] = "IDLE" /\ status'[c] = "IDLE"
       /\ camera' # NoCamera
          => camera' = FakeWebcam(FIXED_CAMERA_WIDTH, FIXED_CAMERA_HEIGHT)
       /\ serving => serving' /\ camera' = camera
       /\ \A c \in Conns : status'[c] # "IDLE" => serving]_vars

\* with the camera initialized, both connections have had a frame handed to
\* it, commands were processed and a connection was closed
C12_Witness ==
    /\ camera = FakeWebcam(FIXED_CAMERA_WIDTH, FIXED_CAMERA_HEIGHT)
    /\ \A c \in Conns : last[c].written.handed
    /\ \E c \in Conns : session[c].rotation # 0
    /\ \E c \in Conns : status[c] = "CLOSED"

\* the step is one of connection c: it is accepted, its handler processes a
\* message, or it is closed
StepOf(c) == Reads(c) \/ status'[c] # status[c]

\* C13: a step of one connection (its accept, a text command, a frame that
\* is counted, skipped or fails, its closing) leaves the rotation, flips,
\* frame_count and tracker of every other connection as they were, and
\* leaves every other connection in the state (connected or not) it was in.
C13_SessionsIsolated ==
    [][\A c \in Conns :
         StepOf(c) => \A o \in Conns \ {c} :
                          /\ session'[o] = session[o]
                          /\ status'[o] = status[o]
                          /\ reported'[o] = reported[o]]_vars

\* one connection was rotated, failed on a frame and was closed, while the
\* other is connected with the initial transform state and a counted frame
C13_Witness ==
    \E c \in Conns, o \in Conns :
        /\ c # o
        /\ status[c] = "CLOSED"
        /\ session[c].rotation = 90
        /\ last[c].verdict = "transform_error"
        /\ status[o] = "CONNECTED"
        /\ Transform(session[o]) = NoTag
        /\ session[o].frame_count = 1

\* the frames of connection c that the camera took
Delivered(c) == Cardinality({i \in 1..Len(log[c]) : log[c][i].delivered})

\* the session a frame leaves when the camera takes it
AfterDelivery(s, message) ==
    HandleBytes(s, message, FakeWebcam(FIXED_CAMERA_WIDTH, FIXED_CAMERA_HEIGHT),
                TRUE, TRUE).session

\* C14: a frame whose camera write fails (no camera, or the device does not
\* take it) is still counted and leaves the session as a delivered frame
\* would: connected, rotation, flips and tracker the same; and at every point
\* frames delivered <= frame_count <= binary messages processed.
C14_WriteFailureIsSoft ==
    [][\A c \in Conns :
         /\ Delivered(c) <= session[c].frame_count
         /\ session[c].frame_count <= Len(log[c])
         /\ Delivered(c)' <= session'[c].frame_count
         /\ session'[c].frame_count <= Len(log'[c])
         /\ (Reads(c) /\ last'[c].verdict = "counted"
             /\ ~last'[c].written.delivered)
            => /\ status'[c] = "CONNECTED"
               /\ session'[c].frame_count = session[c].frame_count + 1
               /\ session'[c] = AfterDelivery(session[c], Head(stream[c]))]_vars

\* a frame was delivered after the write of an earlier frame of the
\* connection had failed, and both are counted
C14_Witness ==
    \E c \in Conns :
        /\ Len(log[c]) = 3
        /\ log[c][1].verdict = "counted" /\ ~log[c][1].delivered
        /\ log[c][2].verdict # "counted"
        /\ log[c][3].delivered
        /\ session[c].frame_count = 2
        /\ status[c] = "CONNECTED"

\* the frame processed last by c was intact and got to apply_transformations
Piped(c) ==
    /\ last[c].type = "bytes"
    /\ last[c].data = "intact"
    /\ Forwarded(last[c])

\* the image Image.open made of the frame processed last by c
Opened(c) == [size |-> last[c].size, intact |-> TRUE, ops |-> <<>>]

\* C15: for a frame transformed with rotation r, apply_transformations with
\* rotation r + 360k, k = -MaxTurns..MaxTurns, and the same flips gives the
\* same outcome: it fails when the pipeline failed, and else returns the
\* same image (same operations, same size), with the same box after the
\* rotation; so 360k does what 0 does.
C15_RotationPeriodic ==
    \A c \in Conns :
        Piped(c) =>
            \A k \in (0 - MaxTurns)..MaxTurns :
                LET r == last[c].rotation + 360 * k
                    out == apply_transformations(Opened(c), r, last[c].flip_h,
                               last[c].flip_v, FIXED_CAMERA_WIDTH,
                               FIXED_CAMERA_HEIGHT)
                IN  /\ out.ok = (last[c].verdict = "counted")
                    /\ out.ok => out.img = last[c].image
                    /\ RotateStep(Opened(c), r).img.size = last[c].box

\* a frame was turned and flipped with a rotation above 360
C15_Witness ==
    \E c \in Conns :
        /\ Piped(c) /\ last[c].verdict = "counted"
        /\ last[c].rotation = 450
        /\ last[c].flip_h = PyBool(TRUE)
        /\ last[c].size = SizeA

\* C16: the box of a frame of size (w, h) after the rotation by r and before
\* the letterbox is (h, w) when r mod 360 is 90 or 270 and (w, h) otherwise.
C16_BoxSwappedAtQuarterTurns ==
    \A c \in Conns :
        Piped(c) =>
            last[c].box = IF last[c].rotation % 360 \in {90, 270}
                          THEN <<last[c].size[2], last[c].size[1]>>
                          ELSE last[c].size

\* a 640x480 frame was turned by -90 and has the box 480x640
C16_Witness ==
    \E c \in Conns :
        /\ Piped(c) /\ last[c].verdict = "counted"
        /\ last[c].rotation = 0 - 90
        /\ last[c].size = SizeA
        /\ last[c].box = SizeB

\* C17: the letterbox succeeds for every frame of positive width and height:
\* an intact frame that gets to apply_transformations comes out of it, at
\* the canvas size, whatever its aspect ratio.
C17_LetterboxNeverFails ==
    \A c \in Conns :
        Piped(c) =>
            /\ last[c].verdict = "counted"
            /\ last[c].image.size = Canvas

\* C18: a frame of the canvas size, with rotation 0 and no flip, is counted
\* and comes out of apply_transformations as Image.open gave it (no
\* rotation, flip or letterbox applied); write_frame_to_camera hands it on
\* without resizing it; and apply_transformations on the result returns the
\* result.
C18_CanvasFrameUnchanged ==
    \A c \in Conns :
        (/\ last[c].type = "bytes" /\ last[c].data = "intact"
         /\ last[c].verdict # "skipped"
         /\ last[c].size = Canvas
         /\ last[c].rotation = 0
         /\ ~Truthy(last[c].flip_h) /\ ~Truthy(last[c].flip_v))
        => /\ last[c].verdict = "counted"
           /\ last[c].image = Opened(c)
           /\ ~last[c].written.resized
           /\ last[c].written.handed => last[c].written.shape = CameraShape
           /\ camera # NoCamera => last[c].written.handed
           /\ apply_transformations(last[c].image, 0, last[c].flip_h,
                  last[c].flip_v, FIXED_CAMERA_WIDTH, FIXED_CAMERA_HEIGHT)
                  = Return(last[c].image)

\* a canvas-sized frame went through untransformed, after the rotation had
\* been set to another value and back to 0, and the camera took it
C18_Witness ==
    \E c \in Conns :
        /\ last[c].type = "bytes" /\ last[c].data = "intact"
        /\ last[c].size = Canvas
        /\ last[c].verdict = "counted"
        /\ last[c].rotation = 0
        /\ last[c].flip_h = PyBool(FALSE) /\ last[c].flip_v = PyBool(FALSE)
        /\ last[c].written.delivered
        /\ sent[c] = MaxMsgs

\* the counters of the tracker are in order in session s
CountersInOrder(s) ==
    /\ s.dimension_change_frame_count >= 0
    /\ s.stable_dimension_frame_count >= 0
    /\ s.stable_dimension_frame_count > 0 => s.dimension_change_frame_count > 0
    /\ s.stable_dimension_frame_count < REQUIRED_STABLE_FRAMES

\* C19: between frames both counters of the tracker are non-negative, the
\* stable count is non-zero only while the change count is positive, and the
\* stable count is below the threshold; a stability check increments at most
\* one of the two counters.
C19_TrackerCountersInOrder ==
    [][\A c \in Conns :
         /\ CountersInOrder(session[c])
         /\ CountersInOrder(session'[c])
         /\ ~(/\ session'[c].dimension_change_frame_count
                    > session[c].dimension_change_frame_count
               /\ session'[c].stable_dimension_frame_count
                    > session[c].stable_dimension_frame_count)]_vars

\* after four changes of size two stable frames have been seen
C19_Witness ==
    \E c \in Conns :
        /\ session[c].dimension_change_frame_count = 4
        /\ session[c].stable_dimension_frame_count = 2

\* C20: flip_h and flip_v are booleans in every session state, whatever
\* text messages were processed.
C20_FlipFlagsAreBooleans ==
    \A c \in Conns :
        /\ session[c].flip_h.t = "bool"
        /\ session[c].flip_v.t = "bool"

\* the stability tracker of session s
Tracker(s) ==
    <<s.last_incoming_dimensions, s.dimension_change_frame_count,
      s.stable_dimension_frame_count>>

\* C21: processing a text message leaves frame_count and the tracker as they
\* were and hands nothing to the camera; processing a binary message leaves
\* rotation and both flips as they were; frame_count never decreases, grows
\* by at most 1 in a step, only in a step that processes a binary message,
\* and not for a frame the tracker dropped.
C21_HandlersTouchTheirOwnFields ==
    [][\A c \in Conns :
         LET m == Head(stream[c])
             grown == session'[c].frame_count - session[c].frame_count
         IN  /\ (Reads(c) /\ m.type = "str")
                => /\ grown = 0
                   /\ Tracker(session'[c]) = Tracker(session[c])
                   /\ sink' = sink
                   /\ log' = log
             /\ (Reads(c) /\ m.type = "bytes")
                => /\ Transform(session'[c]) = Transform(session[c])
                   /\ last'[c].verdict = "skipped" => grown = 0
             /\ status[c] = "CONNECTED" => grown \in {0, 1}
             /\ grown = 1 => Reads(c) /\ m.type = "bytes"]_vars

\* a frame was counted, a command then changed the rotation, and a frame of
\* another size was dropped by the tracker
C21_Witness ==
    \E c \in Conns :
        /\ last[c].type = "bytes" /\ last[c].verdict = "skipped"
        /\ session[c].rotation # 0
        /\ session[c].frame_count = 1
        /\ session[c].dimension_change_frame_count = 1

\* frames a run of one size needs at most until the tracker has settled
RecoveryFrames == REQUIRED_STABLE_FRAMES + 1

\* C22: the 4th and every later frame of a run of decodable frames of one
\* size gets past the stability check, whatever frames came before the run;
\* and after such a frame both counters are 0 and the last dimensions are
\* the size of the run.
C22_RunSettlesByFourthFrame ==
    \A c \in Conns :
        LET d == Decoded(c) IN
        /\ \A i \in 1..Len(d) :
               RunLength(d, i) >= RecoveryFrames => Forwarded(d[i])
        /\ (d # <<>> /\ RunLength(d, Len(d)) >= RecoveryFrames)
           => /\ session[c].dimension_change_frame_count = 0
              /\ session[c].stable_dimension_frame_count = 0
              /\ session[c].last_incoming_dimensions = d[Len(d)].size

\* the sizes changed three times in a row, the third change was let
\* through, and the run that followed settled with its 4th frame
C22_Witness ==
    \E c \in Conns :
        LET d == Decoded(c) IN
        /\ Len(d) = 7
        /\ Sizes(d) = <<SizeA, SizeB, SizeA, SizeB, SizeB, SizeB, SizeB>>
        /\ Verdicts(d) = <<"counted", "skipped", "skipped", "counted",
                           "skipped", "skipped", "counted">>
        /\ session[c].dimension_change_frame_count = 0

\* the letterbox operations applied to the frame processed last by c
Letterboxes(c) == SelectSeq(last[c].image.ops, LAMBDA o : o.op = "letterbox")

\* the resized size w x h pasted at (x, y) is in order on the canvas
GeometryInOrder(w, h, x, y) ==
    LET right == FIXED_CAMERA_WIDTH - w - x
        bottom == FIXED_CAMERA_HEIGHT - h - y
    IN  /\ w <= FIXED_CAMERA_WIDTH
        /\ h <= FIXED_CAMERA_HEIGHT
        /\ w = FIXED_CAMERA_WIDTH \/ h = FIXED_CAMERA_HEIGHT
        /\ x = (FIXED_CAMERA_WIDTH - w) \div 2
        /\ y = (FIXED_CAMERA_HEIGHT - h) \div 2
        /\ x >= 0 /\ y >= 0
        /\ x + w <= FIXED_CAMERA_WIDTH
        /\ y + h <= FIXED_CAMERA_HEIGHT
        /\ right - x \in {0, 1}
        /\ bottom - y \in {0, 1}

\* C23: when a frame is letterboxed to the canvas, the resized content is
\* at most as wide and as high as the canvas and as wide or as high as it;
\* the paste offsets are floor((canvas - resized) / 2) and not negative, so
\* the content lies inside the canvas; and on each axis the border before
\* the content is as large as the border after it or one pixel smaller.
\* The sizes and offsets computed for a frame whose resize then fails are
\* in the same order.
C23_LetterboxGeometry ==
    \A c \in Conns :
        /\ \A i \in 1..Len(Letterboxes(c)) :
               LET g == Letterboxes(c)[i].arg IN
               GeometryInOrder(g[1], g[2], g[3], g[4])
        /\ (Piped(c) /\ last[c].box # Canvas)
           => LET g == LetterboxGeometry(last[c].box, FIXED_CAMERA_WIDTH,
                                         FIXED_CAMERA_HEIGHT)
              IN  /\ GeometryInOrder(g.new_width, g.new_height,
                                     g.x_offset, g.y_offset)
                  /\ last[c].verdict = "counted"
                     => Letterboxes(c) =
                            <<Operation("letterbox",
                                        <<g.new_width, g.new_height,
                                          g.x_offset, g.y_offset>>)>>

\* a frame was letterboxed with an odd difference to the canvas width: the
\* left border is one pixel smaller than the right one
C23_Witness ==
    \E c \in Conns :
        /\ last[c].verdict = "counted"
        /\ last[c].size = Narrow
        /\ Len(Letterboxes(c)) = 1
        /\ Letterboxes(c)[1].arg = <<675, 1080, 622, 0>>

=============================================================================
